---- MODULE Spec2Model ----
(***************************************************************************)
(* Model of the vote handler (crates/api/src/post/like.rs, like_post) and  *)
(* of the community resolution of a federated Page                         *)
(* (crates/apub/src/protocol/objects/page.rs, InCommunity for Page).       *)
(***************************************************************************)
EXTENDS Integers, Sequences, FiniteSets, TLC

(***************************************************************************)
(* Bounds and domains                                                      *)
(***************************************************************************)
\* number of like_post requests of one behaviour
MaxCalls == 2
\* number of addressing entries of a Page, `to` and `cc` together
MaxAddr == 3

Persons == {1, 2}
PostIds == {1}
\* caller-supplied scores (an i16 in CreatePostLike): the three recognised
\* directions and one value outside them
Scores == {-1, 0, 1, 2}

\* Post::read: the stored post row; post p belongs to community p + 10 and
\* has federation identity (ap_id) p + 100
PostCommunityId(post_id) == post_id + 10
PostApId(post_id) == post_id + 100

VARIABLES
  post_like,       \* the post_like table: row -> number of stored copies
  post_read,       \* the post_read table: set of <<person_id, post_id>>
  activities,      \* SendActivityData values handed to the ActivityChannel
  enable_downvotes,\* LocalSite.enable_downvotes
  calls,           \* the like_post requests, in order of arrival
  page,            \* the Page whose community is being resolved
  iter,            \* position of the merge iterator in page.to and page.cc
  attempts,        \* the dereference calls made so far, with their outcome
  community,       \* actor_id of the dereferenced community, 0 before
  page_pc,         \* position in Page::community
  page_result,     \* what Page::community returned
  json,            \* the wire value being deserialized
  db_post,         \* the stored post of the Page's id: <<>> or <<post>>
  parsed,          \* the result of the deserialization
  applied          \* the results of the methods called on the parsed value

voteVars == <<post_like, post_read, activities, enable_downvotes, calls>>
pageVars == <<page, iter, attempts, community, page_pc, page_result>>
objVars == <<json, db_post, parsed, applied>>
vars == <<post_like, post_read, activities, enable_downvotes, calls,
          page, iter, attempts, community, page_pc, page_result,
          json, db_post, parsed, applied>>

PostLikeForm == [post_id : PostIds, person_id : Persons, score : Scores]

\* number of stored rows of one (post, actor) pair
RECURSIVE SumRows(_, _)
SumRows(table, rows) ==
  IF rows = {} THEN 0
  ELSE LET r == CHOOSE x \in rows : TRUE
       IN table[r] + SumRows(table, rows \ {r})

RowCount(table, person_id, post_id) ==
  SumRows(table, {r \in PostLikeForm : r.person_id = person_id /\ r.post_id = post_id})

\* PostLike::remove: delete every row of (person_id, post_id)
PostLikeRemove(table, person_id, post_id) ==
  [r \in PostLikeForm |->
     IF r.person_id = person_id /\ r.post_id = post_id THEN 0 ELSE table[r]]

\* PostLike::like: insert the row of the form
PostLikeLike(table, form) ==
  [table EXCEPT ![form] = @ + 1]

\* check_downvotes_enabled(score, local_site)
check_downvotes_enabled(score, downvotes) ==
  ~(score = -1 /\ ~downvotes)

\* do_add with the downvote left out
do_add_UpvoteOnly(score) == score = 1

\* do_add without the test for the recognised directions
do_add_NonZero(score) == score # 0

\* like.rs line 61
do_add(score) == score # 0 /\ (score = 1 \/ score = -1)

(***************************************************************************)
(* like_post: one request is a record; pc is the await point it is at      *)
(***************************************************************************)
Errors == {"NotLoggedIn", "SiteReadFailed", "DownvotesDisabled", "PostNotFound",
           "ActorBanned", "CommunityUnavailable", "RemoveFailed",
           "CouldntLikePost", "MarkReadFailed", "CommunityReadFailed",
           "SubmitFailed"}

\* the errors of the checks made before the first write (lines 31-47)
PreconditionErrors == {"NotLoggedIn", "SiteReadFailed", "DownvotesDisabled",
                       "PostNotFound", "ActorBanned", "CommunityUnavailable"}

NewCall(person_id, post_id, score) ==
  [person_id |-> person_id, post_id |-> post_id, score |-> score,
   pc |-> "auth", result |-> "none",
   had |-> FALSE, removed |-> FALSE, liked |-> FALSE, marked |-> FALSE]

Running(i) == i \in DOMAIN calls /\ calls[i].pc # "done"

Goto(i, pc) == calls' = [calls EXCEPT ![i].pc = pc]

Fail(i, err) == calls' = [calls EXCEPT ![i].pc = "done", ![i].result = err]

\* a request arrives (the Json<CreatePostLike> body and the jwt's person)
Begin ==
  /\ Len(calls) < MaxCalls
  /\ \E person_id \in Persons, post_id \in PostIds, score \in Scores :
       calls' = Append(calls, NewCall(person_id, post_id, score))
  /\ UNCHANGED <<post_like, post_read, activities, enable_downvotes>>
  /\ UNCHANGED pageVars
  /\ UNCHANGED objVars

\* line 31: local_user_view_from_jwt(...).await?
Auth(i) ==
  /\ Running(i) /\ calls[i].pc = "auth"
  /\ \E ok \in BOOLEAN :
       IF ok THEN Goto(i, "site") ELSE Fail(i, "NotLoggedIn")
  /\ UNCHANGED <<post_like, post_read, activities, enable_downvotes>>
  /\ UNCHANGED pageVars
  /\ UNCHANGED objVars

\* CheckDownvotes with the result of check_downvotes_enabled dropped
CheckDownvotes_Ignored(i) ==
  /\ Running(i) /\ calls[i].pc = "site"
  /\ \E ok \in BOOLEAN :
       IF ~ok THEN Fail(i, "SiteReadFailed") ELSE Goto(i, "post")
  /\ UNCHANGED <<post_like, post_read, activities, enable_downvotes>>
  /\ UNCHANGED pageVars
  /\ UNCHANGED objVars

\* lines 32-35: LocalSite::read(...).await? ; check_downvotes_enabled(...)?
CheckDownvotes(i) ==
  /\ Running(i) /\ calls[i].pc = "site"
  /\ \E ok \in BOOLEAN :
       IF ~ok THEN Fail(i, "SiteReadFailed")
       ELSE IF check_downvotes_enabled(calls[i].score, enable_downvotes)
            THEN Goto(i, "post")
            ELSE Fail(i, "DownvotesDisabled")
  /\ UNCHANGED <<post_like, post_read, activities, enable_downvotes>>
  /\ UNCHANGED pageVars
  /\ UNCHANGED objVars

\* lines 38-39: Post::read(...).await?
ReadPost(i) ==
  /\ Running(i) /\ calls[i].pc = "post"
  /\ \E found \in BOOLEAN :
       IF found THEN Goto(i, "ban") ELSE Fail(i, "PostNotFound")
  /\ UNCHANGED <<post_like, post_read, activities, enable_downvotes>>
  /\ UNCHANGED pageVars
  /\ UNCHANGED objVars

\* lines 41-46: check_community_ban(...).await?
CheckBan(i) ==
  /\ Running(i) /\ calls[i].pc = "ban"
  /\ \E banned \in BOOLEAN :
       IF banned THEN Fail(i, "ActorBanned") ELSE Goto(i, "deleted")
  /\ UNCHANGED <<post_like, post_read, activities, enable_downvotes>>
  /\ UNCHANGED pageVars
  /\ UNCHANGED objVars

\* line 47: check_community_deleted_or_removed(...).await?
CheckDeleted(i) ==
  /\ Running(i) /\ calls[i].pc = "deleted"
  /\ \E gone \in BOOLEAN :
       IF gone THEN Fail(i, "CommunityUnavailable") ELSE Goto(i, "remove")
  /\ UNCHANGED <<post_like, post_read, activities, enable_downvotes>>
  /\ UNCHANGED pageVars
  /\ UNCHANGED objVars

\* Remove without the call of PostLike::remove
Remove_NoDelete(i) ==
  /\ Running(i) /\ calls[i].pc = "remove"
  /\ calls' = [calls EXCEPT
       ![i].pc = "like",
       ![i].removed = TRUE,
       ![i].had = RowCount(post_like, calls[i].person_id, calls[i].post_id) > 0]
  /\ UNCHANGED <<post_like, post_read, activities, enable_downvotes>>
  /\ UNCHANGED pageVars
  /\ UNCHANGED objVars

\* lines 49-58: build like_form; PostLike::remove(...).await?
Remove(i) ==
  /\ Running(i) /\ calls[i].pc = "remove"
  /\ \E ok \in BOOLEAN :
       IF ok
       THEN /\ post_like' = PostLikeRemove(post_like, calls[i].person_id, calls[i].post_id)
            /\ calls' = [calls EXCEPT
                 ![i].pc = "like",
                 ![i].removed = TRUE,
                 ![i].had = RowCount(post_like, calls[i].person_id, calls[i].post_id) > 0]
       ELSE /\ Fail(i, "RemoveFailed")
            /\ UNCHANGED post_like
  /\ UNCHANGED <<post_read, activities, enable_downvotes>>
  /\ UNCHANGED pageVars
  /\ UNCHANGED objVars

\* lines 60-66: if do_add { PostLike::like(...).await.with_lemmy_type(CouldntLikePost)? }
Like(i) ==
  /\ Running(i) /\ calls[i].pc = "like"
  /\ IF do_add(calls[i].score)
     THEN \E ok \in BOOLEAN :
            IF ok
            THEN /\ post_like' = PostLikeLike(post_like,
                      [post_id |-> calls[i].post_id,
                       person_id |-> calls[i].person_id,
                       score |-> calls[i].score])
                 /\ calls' = [calls EXCEPT ![i].pc = "read", ![i].liked = TRUE]
            ELSE /\ Fail(i, "CouldntLikePost")
                 /\ UNCHANGED post_like
     ELSE /\ Goto(i, "read")
          /\ UNCHANGED post_like
  /\ UNCHANGED <<post_read, activities, enable_downvotes>>
  /\ UNCHANGED pageVars
  /\ UNCHANGED objVars

\* MarkRead made only when a row was inserted
MarkRead_OnlyIfLiked(i) ==
  /\ Running(i) /\ calls[i].pc = "read"
  /\ \E ok \in BOOLEAN :
       IF ok
       THEN /\ post_read' = IF calls[i].liked
                             THEN post_read \cup {<<calls[i].person_id, calls[i].post_id>>}
                             ELSE post_read
            /\ calls' = [calls EXCEPT ![i].pc = "community", ![i].marked = calls[i].liked]
       ELSE /\ Fail(i, "MarkReadFailed")
            /\ UNCHANGED post_read
  /\ UNCHANGED <<post_like, activities, enable_downvotes>>
  /\ UNCHANGED pageVars
  /\ UNCHANGED objVars

\* line 69: mark_post_as_read(person_id, post_id, ...).await?
MarkRead(i) ==
  /\ Running(i) /\ calls[i].pc = "read"
  /\ \E ok \in BOOLEAN :
       IF ok
       THEN /\ post_read' = post_read \cup {<<calls[i].person_id, calls[i].post_id>>}
            /\ calls' = [calls EXCEPT ![i].pc = "community", ![i].marked = TRUE]
       ELSE /\ Fail(i, "MarkReadFailed")
            /\ UNCHANGED post_read
  /\ UNCHANGED <<post_like, activities, enable_downvotes>>
  /\ UNCHANGED pageVars
  /\ UNCHANGED objVars

\* line 75: Community::read(..., post.community_id).await?  (the argument of
\* submit_activity is evaluated before the call)
ReadCommunity(i) ==
  /\ Running(i) /\ calls[i].pc = "community"
  /\ \E ok \in BOOLEAN :
       IF ok THEN Goto(i, "submit") ELSE Fail(i, "CommunityReadFailed")
  /\ UNCHANGED <<post_like, post_read, activities, enable_downvotes>>
  /\ UNCHANGED pageVars
  /\ UNCHANGED objVars

\* LikePostOrComment carrying the validated score instead of data.score
LikePostOrComment_Validated(i) ==
  [call |-> i,
   ap_id |-> PostApId(calls[i].post_id),
   person |-> calls[i].person_id,
   community |-> PostCommunityId(calls[i].post_id),
   score |-> IF do_add(calls[i].score) THEN calls[i].score ELSE 0]

\* the SendActivityData::LikePostOrComment value of lines 72-77
LikePostOrComment(i) ==
  [call |-> i,
   ap_id |-> PostApId(calls[i].post_id),
   person |-> calls[i].person_id,
   community |-> PostCommunityId(calls[i].post_id),
   score |-> calls[i].score]

\* lines 71-82: ActivityChannel::submit_activity(...).await? ; Ok(...)
Submit(i) ==
  /\ Running(i) /\ calls[i].pc = "submit"
  /\ \E ok \in BOOLEAN :
       IF ok
       THEN /\ activities' = Append(activities, LikePostOrComment(i))
            /\ calls' = [calls EXCEPT ![i].pc = "done", ![i].result = "Ok"]
       ELSE /\ Fail(i, "SubmitFailed")
            /\ UNCHANGED activities
  /\ UNCHANGED <<post_like, post_read, enable_downvotes>>
  /\ UNCHANGED pageVars
  /\ UNCHANGED objVars

\* no Page is being resolved
NoPage ==
  /\ page = [attributed_to |-> [kind |-> "Lemmy", id |-> 1, entries |-> <<>>],
             to |-> <<>>, cc |-> <<>>, audience |-> 0]
  /\ iter = [a |-> 1, b |-> 1]
  /\ attempts = <<>>
  /\ community = 0
  /\ page_pc = "idle"
  /\ page_result = "none"

\* no wire value is being deserialized
NoObject ==
  /\ json = <<>>
  /\ db_post = <<>>
  /\ parsed = <<>>
  /\ applied = <<>>

\* no vote has been cast
NoVotes ==
  /\ post_like = [r \in PostLikeForm |-> 0]
  /\ post_read = {}
  /\ activities = <<>>
  /\ calls = <<>>

Init ==
  /\ NoVotes
  /\ enable_downvotes \in BOOLEAN
  /\ NoPage
  /\ NoObject

Step(i) ==
  \/ Auth(i)
  \/ CheckDownvotes(i)
  \/ ReadPost(i)
  \/ CheckBan(i)
  \/ CheckDeleted(i)
  \/ Remove(i)
  \/ Like(i)
  \/ MarkRead(i)
  \/ ReadCommunity(i)
  \/ Submit(i)

Next ==
  \/ Begin
  \/ \E i \in 1..MaxCalls : Step(i)

\* requests run concurrently and interleave at their await points
Spec == Init /\ [][Next]_vars

\* requests run one after another: a request arrives when the previous ones
\* have returned
BeginSeq ==
  /\ \A i \in DOMAIN calls : calls[i].pc = "done"
  /\ Begin

NextSeq ==
  \/ BeginSeq
  \/ \E i \in 1..MaxCalls : Step(i)

SpecSeq == Init /\ [][NextSeq]_vars

(***************************************************************************)
(* Page::community (InCommunity for Page)                                  *)
(***************************************************************************)
\* Url values; Url's Ord is the order of the integers
Urls == 1..3

SeqsUpTo(S, n) == UNION {[1..k -> S] : k \in 0..n}

\* AttributedToPeertube
AttributedToPeertube == [kind : {"Person", "Group"}, id : Urls]

\* AttributedTo: Lemmy(ObjectId) or Peertube([AttributedToPeertube; 2])
AttributedTo ==
  [kind : {"Lemmy"}, id : Urls, entries : {<<>>}]
    \cup [kind : {"Peertube"}, id : {0}, entries : [1..2 -> AttributedToPeertube]]

\* the fields of Page that Page::community reads; audience 0 is None
Pages ==
  {pg \in [attributed_to : AttributedTo,
           to : SeqsUpTo(Urls, MaxAddr),
           cc : SeqsUpTo(Urls, MaxAddr),
           audience : {0} \cup Urls] :
     Len(pg.to) + Len(pg.cc) <= MaxAddr}

\* Itertools::merge(to, cc), next(): "a" takes the head of `to`, "b" the head
\* of `cc`, "end" is None.  With both heads present the smaller one is
\* yielded, `to` first on a tie (MergeLte: a <= b).
MergeNext(to, cc, it) ==
  IF it.a <= Len(to) /\ it.b <= Len(cc)
  THEN IF to[it.a] <= cc[it.b] THEN "a" ELSE "b"
  ELSE IF it.a <= Len(to) THEN "a"
  ELSE IF it.b <= Len(cc) THEN "b"
  ELSE "end"

\* verify_community_matches(audience, community.actor_id)
verify_community_matches(audience, actor_id) == audience = actor_id

PageDone(result) ==
  /\ page_pc' = "done"
  /\ page_result' = result

\* CommunityLemmy without the break: the scan goes on after a success and
\* the last community found is kept
CommunityLemmy_NoBreak ==
  /\ page_pc = "resolve"
  /\ page.attributed_to.kind = "Lemmy"
  /\ LET side == MergeNext(page.to, page.cc, iter)
         cid == IF side = "a" THEN page.to[iter.a] ELSE page.cc[iter.b]
     IN IF side = "end"
        THEN /\ IF community # 0
                THEN page_pc' = "audience" /\ UNCHANGED page_result
                ELSE PageDone("NoCommunityFoundInCc")
             /\ UNCHANGED <<iter, attempts, community>>
        ELSE /\ iter' = IF side = "a" THEN [iter EXCEPT !.a = @ + 1]
                                      ELSE [iter EXCEPT !.b = @ + 1]
             /\ \E ok \in BOOLEAN :
                  /\ attempts' = Append(attempts, [url |-> cid, ok |-> ok])
                  /\ community' = IF ok THEN cid ELSE community
             /\ UNCHANGED <<page_pc, page_result>>
  /\ UNCHANGED page
  /\ UNCHANGED voteVars
  /\ UNCHANGED objVars

\* CommunityLemmy with the dereference error returned (`?`) instead of skipped
CommunityLemmy_FailFatal ==
  /\ page_pc = "resolve"
  /\ page.attributed_to.kind = "Lemmy"
  /\ LET side == MergeNext(page.to, page.cc, iter)
         cid == IF side = "a" THEN page.to[iter.a] ELSE page.cc[iter.b]
     IN IF side = "end"
        THEN /\ PageDone("NoCommunityFoundInCc")
             /\ UNCHANGED <<iter, attempts, community>>
        ELSE /\ iter' = IF side = "a" THEN [iter EXCEPT !.a = @ + 1]
                                      ELSE [iter EXCEPT !.b = @ + 1]
             /\ \E ok \in BOOLEAN :
                  /\ attempts' = Append(attempts, [url |-> cid, ok |-> ok])
                  /\ IF ok
                     THEN /\ community' = cid
                          /\ page_pc' = "audience"
                          /\ UNCHANGED page_result
                     ELSE /\ PageDone("DereferenceFailed")
                          /\ UNCHANGED community
  /\ UNCHANGED page
  /\ UNCHANGED voteVars
  /\ UNCHANGED objVars

\* lines 231-243: one turn of the loop over to.iter().merge(cc.iter())
CommunityLemmy ==
  /\ page_pc = "resolve"
  /\ page.attributed_to.kind = "Lemmy"
  /\ LET side == MergeNext(page.to, page.cc, iter)
         cid == IF side = "a" THEN page.to[iter.a] ELSE page.cc[iter.b]
     IN IF side = "end"
        THEN /\ PageDone("NoCommunityFoundInCc")
             /\ UNCHANGED <<iter, attempts, community>>
        ELSE /\ iter' = IF side = "a" THEN [iter EXCEPT !.a = @ + 1]
                                      ELSE [iter EXCEPT !.b = @ + 1]
             /\ \E ok \in BOOLEAN :
                  /\ attempts' = Append(attempts, [url |-> cid, ok |-> ok])
                  /\ IF ok
                     THEN /\ community' = cid
                          /\ page_pc' = "audience"
                     ELSE UNCHANGED <<community, page_pc>>
             /\ UNCHANGED page_result
  /\ UNCHANGED page
  /\ UNCHANGED voteVars
  /\ UNCHANGED objVars

\* FindGroup taking the first entry whatever its kind
FindGroup_First(entries) == 1

\* p.iter().find(|a| a.kind == Group): index of the first group entry, 0 if none
FindGroup(entries) ==
  IF entries[1].kind = "Group" THEN 1
  ELSE IF entries[2].kind = "Group" THEN 2
  ELSE 0

\* lines 244-251: dereference the entry tagged Group
CommunityPeertube ==
  /\ page_pc = "resolve"
  /\ page.attributed_to.kind = "Peertube"
  /\ LET g == FindGroup(page.attributed_to.entries)
     IN IF g = 0
        THEN /\ PageDone("PageDoesNotSpecifyGroup")
             /\ UNCHANGED <<attempts, community>>
        ELSE LET cid == page.attributed_to.entries[g].id
             IN \E ok \in BOOLEAN :
                  /\ attempts' = Append(attempts, [url |-> cid, ok |-> ok])
                  /\ IF ok
                     THEN /\ community' = cid
                          /\ page_pc' = "audience"
                          /\ UNCHANGED page_result
                     ELSE /\ PageDone("DereferenceFailed")
                          /\ UNCHANGED community
  /\ UNCHANGED <<page, iter>>
  /\ UNCHANGED voteVars
  /\ UNCHANGED objVars

\* VerifyAudience with the check made for direct attribution only
VerifyAudience_LemmyOnly ==
  /\ page_pc = "audience"
  /\ IF /\ page.attributed_to.kind = "Lemmy"
        /\ page.audience # 0
        /\ ~verify_community_matches(page.audience, community)
     THEN PageDone("InvalidCommunity")
     ELSE PageDone("Ok")
  /\ UNCHANGED <<page, iter, attempts, community>>
  /\ UNCHANGED voteVars
  /\ UNCHANGED objVars

\* lines 253-256: the audience check and the return
VerifyAudience ==
  /\ page_pc = "audience"
  /\ IF page.audience # 0 /\ ~verify_community_matches(page.audience, community)
     THEN PageDone("InvalidCommunity")
     ELSE PageDone("Ok")
  /\ UNCHANGED <<page, iter, attempts, community>>
  /\ UNCHANGED voteVars
  /\ UNCHANGED objVars

InitPage ==
  /\ NoVotes
  /\ enable_downvotes = TRUE
  /\ page \in Pages
  /\ iter = [a |-> 1, b |-> 1]
  /\ attempts = <<>>
  /\ community = 0
  /\ page_pc = "resolve"
  /\ page_result = "none"
  /\ NoObject

NextPage ==
  \/ CommunityLemmy
  \/ CommunityPeertube
  \/ VerifyAudience

SpecPage == InitPage /\ [][NextPage]_vars

(***************************************************************************)
(* Properties of like_post                                                 *)
(***************************************************************************)
Done(i) == i \in DOMAIN calls /\ calls[i].pc = "done"
Succeeded(i) == Done(i) /\ calls[i].result = "Ok"
SameKey(i, j) ==
  calls[i].person_id = calls[j].person_id /\ calls[i].post_id = calls[j].post_id
RowsOfCall(i) == RowCount(post_like, calls[i].person_id, calls[i].post_id)
StoredRow(i) ==
  [post_id |-> calls[i].post_id, person_id |-> calls[i].person_id,
   score |-> calls[i].score]
ActivitiesOf(i) == {k \in DOMAIN activities : activities[k].call = i}

\* C1: when requests are handled one after another, every (post, actor) pair
\* has at most one stored vote row in every state, and no stored row has
\* score 0.
C1_OneRowPerPair ==
  /\ \A person_id \in Persons, post_id \in PostIds :
       RowCount(post_like, person_id, post_id) <= 1
  /\ \A r \in PostLikeForm : post_like[r] > 0 => r.score # 0

\* a second vote of the same actor on the same post replaced the first one
C1_Witness ==
  /\ Len(calls) = 2
  /\ Succeeded(1) /\ Succeeded(2) /\ SameKey(1, 2)
  /\ calls[1].liked /\ calls[2].liked /\ calls[2].had
  /\ RowsOfCall(2) = 1

\* the effect on the table of one request run alone, given how far it got
SeqEffect(table, c) ==
  LET t1 == IF c.removed THEN PostLikeRemove(table, c.person_id, c.post_id)
            ELSE table
  IN IF c.liked
     THEN PostLikeLike(t1, [post_id |-> c.post_id, person_id |-> c.person_id,
                            score |-> c.score])
     ELSE t1

\* the tables that running the requests of S one after another, in any
\* order, can leave behind
RECURSIVE SerialOutcomes(_, _)
SerialOutcomes(S, table) ==
  IF S = {} THEN {table}
  ELSE UNION {SerialOutcomes(S \ {i}, SeqEffect(table, calls[i])) : i \in S}

\* C2: once all concurrent requests have returned successfully, the vote rows
\* equal the result of running the requests one after another in some order.
C2_Serializable ==
  (\A i \in DOMAIN calls : Succeeded(i))
    => post_like \in SerialOutcomes(DOMAIN calls, [r \in PostLikeForm |-> 0])

\* C3: right after a successful request with score s (requests handled one
\* after another), its (actor, post) has exactly the row with score s when s
\* is 1 or -1 and no row when s is 0, whatever was stored before.
C3_ResultDependsOnScoreOnly ==
  \A i \in DOMAIN calls :
    (i = Len(calls) /\ Succeeded(i)) =>
       /\ calls[i].score \in {1, -1} =>
            /\ RowsOfCall(i) = 1
            /\ post_like[StoredRow(i)] = 1
       /\ calls[i].score = 0 => RowsOfCall(i) = 0

\* a vote flip: 1 then -1 by the same actor on the same post
C3_Witness ==
  /\ Len(calls) = 2
  /\ Succeeded(1) /\ Succeeded(2) /\ SameKey(1, 2)
  /\ calls[1].score = 1 /\ calls[2].score = -1
  /\ post_like[StoredRow(2)] = 1

ChangedNothing(i) ==
  /\ ~calls[i].removed /\ ~calls[i].liked /\ ~calls[i].marked
  /\ ActivitiesOf(i) = {}

\* the step in which request i returns a precondition error
C4_FailedPreconditionStep ==
  \A i \in DOMAIN calls :
    (calls[i].pc # "done" /\ calls'[i].pc = "done"
       /\ calls'[i].result \in PreconditionErrors)
      => UNCHANGED <<post_like, post_read, activities>>

\* what a request that failed a precondition, or that must fail one, has done
C4_FailedPreconditionState ==
  \A i \in DOMAIN calls :
    /\ calls[i].result \in PreconditionErrors => ChangedNothing(i)
    /\ (calls[i].score = -1 /\ ~enable_downvotes) =>
          /\ ChangedNothing(i)
          /\ calls[i].pc \in {"auth", "site", "done"}
          /\ Done(i) => calls[i].result \in
                          {"NotLoggedIn", "SiteReadFailed", "DownvotesDisabled"}

\* C4: a request that fails a precondition has changed nothing, and the step
\* in which it fails leaves the vote rows, the read marks and the emitted
\* events as they were; a downvote with downvotes disabled always fails so.
C4_PreconditionFailureChangesNothing ==
  /\ []C4_FailedPreconditionState
  /\ [][C4_FailedPreconditionStep]_vars

\* a downvote is rejected while the actor's earlier vote row is stored
C4_Witness ==
  /\ Len(calls) = 2
  /\ Succeeded(1) /\ SameKey(1, 2) /\ calls[1].score = 1
  /\ calls[2].score = -1 /\ calls[2].result = "DownvotesDisabled"
  /\ post_like[StoredRow(1)] = 1

\* C5: a request that returned success has emitted exactly one event, which
\* carries the post's ap_id, the person, the post's community and the score
\* as requested; an event is emitted only after the remove/insert and the
\* mark-as-read of its request, and a request that returned an error has
\* emitted none.
C5_OneEventPerSuccess ==
  /\ \A i \in DOMAIN calls :
       /\ Succeeded(i) =>
            /\ Cardinality(ActivitiesOf(i)) = 1
            /\ \A k \in ActivitiesOf(i) :
                 /\ activities[k].ap_id = PostApId(calls[i].post_id)
                 /\ activities[k].person = calls[i].person_id
                 /\ activities[k].community = PostCommunityId(calls[i].post_id)
                 /\ activities[k].score = calls[i].score
       /\ calls[i].result \in Errors => ActivitiesOf(i) = {}
       /\ ~Done(i) => ActivitiesOf(i) = {}
  /\ \A k \in DOMAIN activities :
       LET c == calls[activities[k].call]
       IN /\ c.removed /\ c.marked
          /\ do_add(c.score) => c.liked

\* the end-to-end case: a downvote, one row with -1, one event with -1
C5_Witness ==
  \E i \in DOMAIN calls :
    /\ Succeeded(i) /\ calls[i].score = -1
    /\ post_like[StoredRow(i)] = 1 /\ RowsOfCall(i) = 1
    /\ \E k \in ActivitiesOf(i) : activities[k].score = -1

\* C6: while an actor who holds a vote row replaces it by a nonzero score,
\* no state in which that (actor, post) has no vote row is reachable.
C6_ReplaceIsAtomic ==
  \A i \in DOMAIN calls :
    (calls[i].pc = "like" /\ calls[i].had /\ do_add(calls[i].score))
      => RowsOfCall(i) > 0

\* C7: no vote row is inserted for a score other than -1, 0, 1, and every
\* stored vote row has score 1 or -1.
C7_OnlyRecognisedScoresStored ==
  /\ \A r \in PostLikeForm : post_like[r] > 0 => r.score \in {1, -1}
  /\ \A i \in DOMAIN calls : calls[i].score \notin {-1, 0, 1} => ~calls[i].liked

\* a request with score 2 went past the insert step and stored nothing
C7_Witness ==
  \E i \in DOMAIN calls :
    /\ calls[i].score = 2 /\ Succeeded(i)
    /\ RowsOfCall(i) = 0
    /\ post_like[StoredRow(i)] = 0

(***************************************************************************)
(* Properties of Page::community                                           *)
(***************************************************************************)
Direct == page.attributed_to.kind = "Lemmy"
LastAttempt == attempts[Len(attempts)]

\* C8: with direct attribution the candidates are dereferenced in the order
\* of `to` followed by `cc`: the urls attempted so far are a prefix of the
\* concatenation, so every `to` entry comes before any `cc` entry.
C8_ToBeforeCc ==
  Direct =>
    LET candidates == page.to \o page.cc
    IN /\ Len(attempts) <= Len(candidates)
       /\ \A k \in 1..Len(attempts) : attempts[k].url = candidates[k]

\* C9: with direct attribution a failed dereference lets the scan go on and
\* nothing is dereferenced after a successful one: every attempt but the
\* last has failed, a successful attempt ends the scan, the community
\* returned is the one of that attempt, and each candidate taken from the
\* iterator is dereferenced once.
C9_StopsAtFirstSuccess ==
  Direct =>
    /\ \A k \in 1..(Len(attempts) - 1) : ~attempts[k].ok
    /\ (attempts # <<>> /\ LastAttempt.ok) =>
          /\ page_pc \in {"audience", "done"}
          /\ community = LastAttempt.url
    /\ community # 0 => (attempts # <<>> /\ LastAttempt.ok)
    /\ page_result \in {"Ok", "InvalidCommunity"} => community # 0
    /\ Len(attempts) = (iter.a - 1) + (iter.b - 1)
    /\ Len(attempts) <= Len(page.to) + Len(page.cc)

\* [A, B, C] where only B dereferences: B is returned, C was never attempted
C9_Witness ==
  /\ Direct /\ page.to = <<1, 2, 3>> /\ page.cc = <<>>
  /\ attempts = <<[url |-> 1, ok |-> FALSE], [url |-> 2, ok |-> TRUE]>>
  /\ page_pc = "done" /\ page_result = "Ok" /\ community = 2

\* C10: a community is returned for a Page with an audience only if its
\* actor_id equals the audience; when they differ the call fails although
\* the dereference succeeded, with either kind of attribution.
C10_AudienceMatches ==
  /\ (page_result = "Ok" /\ page.audience # 0) => community = page.audience
  /\ (page_pc = "done" /\ community # 0 /\ page.audience # 0
        /\ community # page.audience) => page_result = "InvalidCommunity"

\* the group entry of a DualActor attribution dereferenced, the audience
\* names another community, and the call failed
C10_Witness ==
  /\ page.attributed_to.kind = "Peertube"
  /\ attempts # <<>> /\ LastAttempt.ok
  /\ page.audience # 0 /\ page.audience # community
  /\ page_pc = "done" /\ page_result = "InvalidCommunity"

\* C16: with direct attribution the call fails with NoCommunityFoundInCc
\* exactly when every candidate of `to` and `cc` was dereferenced and failed
\* (at once for an empty addressing); no candidate is dereferenced twice, and
\* a failed dereference alone never ends the scan.
C16_FailsExactlyOnExhaustion ==
  Direct =>
    LET total == Len(page.to) + Len(page.cc)
        allFailed == \A k \in DOMAIN attempts : ~attempts[k].ok
    IN /\ page_result = "NoCommunityFoundInCc"
            <=> (page_pc = "done" /\ Len(attempts) = total /\ allFailed)
       /\ Len(attempts) = (iter.a - 1) + (iter.b - 1)
       /\ iter.a <= Len(page.to) + 1 /\ iter.b <= Len(page.cc) + 1
       /\ (allFailed /\ Len(attempts) < total) => page_pc = "resolve"
       /\ (page_pc = "done" /\ ~allFailed)
            => page_result \in {"Ok", "InvalidCommunity"}

\* two candidates failed, the third dereferenced: the call did not fail
C16_Witness ==
  /\ Direct /\ Len(page.to) + Len(page.cc) = 3
  /\ Len(attempts) = 3
  /\ ~attempts[1].ok /\ ~attempts[2].ok /\ attempts[3].ok
  /\ page_pc = "done" /\ page_result = "Ok"

\* C17: with DualActor attribution at most one dereference is made, of the
\* id of the first entry tagged Group and never through the addressing
\* iterator; without a Group entry the call fails without any dereference,
\* and a failed dereference of the group ends the call with its error.
C17_GroupEntryOnly ==
  page.attributed_to.kind = "Peertube" =>
    LET entries == page.attributed_to.entries
        groups == {k \in 1..2 : entries[k].kind = "Group"}
    IN /\ iter = [a |-> 1, b |-> 1]
       /\ Len(attempts) <= 1
       /\ groups = {} =>
            /\ attempts = <<>>
            /\ page_pc = "done" => page_result = "PageDoesNotSpecifyGroup"
       /\ attempts # <<>> =>
            /\ groups # {}
            /\ \E g \in groups :
                 /\ attempts[1].url = entries[g].id
                 /\ \A h \in groups : g <= h
            /\ ~attempts[1].ok =>
                 (page_pc = "done" /\ page_result = "DereferenceFailed")
       /\ page_result = "PageDoesNotSpecifyGroup" => groups = {}

\* the group is the second entry, its dereference failed although `to`
\* names a url, and the call has failed without trying that url
C17_Witness ==
  /\ page.attributed_to.kind = "Peertube"
  /\ page.attributed_to.entries[1].kind = "Person"
  /\ page.attributed_to.entries[2].kind = "Group"
  /\ page.attributed_to.entries[1].id # page.attributed_to.entries[2].id
  /\ page.to # <<>>
  /\ attempts = <<[url |-> page.attributed_to.entries[2].id, ok |-> FALSE]>>
  /\ page_pc = "done" /\ page_result = "DereferenceFailed"

(***************************************************************************)
(* like_post after the preconditions                                       *)
(***************************************************************************)
\* the remove of line 58 and, when do_add holds, the insert of line 63 were made
VoteWritten(i) ==
  calls[i].removed /\ (do_add(calls[i].score) => calls[i].liked)

MarkedRead(i) ==
  calls[i].marked /\ <<calls[i].person_id, calls[i].post_id>> \in post_read

ChangedVoteRows(i) ==
  (calls[i].removed /\ calls[i].had) \/ calls[i].liked

\* C19: a request that has returned after changing the vote rows of its
\* (actor, post) has returned success and has emitted its event.
C19_NoErrorAfterVoteChange ==
  \A i \in DOMAIN calls :
    (Done(i) /\ ChangedVoteRows(i)) =>
       (calls[i].result = "Ok" /\ ActivitiesOf(i) # {})

\* C20: a request with a score outside -1, 0, 1 that has returned success
\* (requests handled one after another) has removed the rows of its (actor,
\* post), inserted nothing, marked the post as read and emitted one event
\* carrying the score as requested.
C20_OutOfRangeIsRetraction ==
  \A i \in DOMAIN calls :
    (calls[i].score \notin {-1, 0, 1} /\ Succeeded(i)) =>
       /\ calls[i].removed /\ ~calls[i].liked
       /\ i = Len(calls) => RowsOfCall(i) = 0
       /\ MarkedRead(i)
       /\ Cardinality(ActivitiesOf(i)) = 1
       /\ \A k \in ActivitiesOf(i) : activities[k].score = calls[i].score

\* score 2 by an actor who held a vote row: the row is gone, the event has 2
C20_Witness ==
  /\ Len(calls) = 2 /\ SameKey(1, 2)
  /\ Succeeded(1) /\ calls[1].liked
  /\ calls[2].score = 2 /\ calls[2].had /\ Succeeded(2)
  /\ RowsOfCall(2) = 0
  /\ \E k \in ActivitiesOf(2) : activities[k].score = 2

(***************************************************************************)
(* Page: deserialization, is_mod_action, creator, ActivityHandler          *)
(* An Option is <<>> (None) or <<v>> (Some(v)); a Result is a record with  *)
(* the field ok.                                                           *)
(***************************************************************************)
\* the JSON value of the field inReplyTo: not in the object, null, a string
\* or a value of another type
InReplyToValues == {"absent", "null", "string", "number"}

\* the payloads: inReplyTo, whether all other fields deserialize, and the
\* fields attributedTo and commentsEnabled
PageJson ==
  [in_reply_to : InReplyToValues,
   rest_ok : BOOLEAN,
   attributed_to : AttributedTo,
   comments_enabled : {<<>>, <<TRUE>>, <<FALSE>>}]

\* Option<String>::deserialize (line 265)
DeserializeOptionString(value) ==
  IF value = "null" THEN [ok |-> TRUE, value |-> <<>>]
  ELSE IF value = "string" THEN [ok |-> TRUE, value |-> <<"string">>]
  ELSE [ok |-> FALSE, value |-> <<>>]

\* deserialize_not_present accepting a present value
deserialize_not_present_Lenient(value) == DeserializeOptionString(value)

\* lines 261-270
deserialize_not_present(value) ==
  LET result == DeserializeOptionString(value)
  IN IF ~result.ok THEN result
     ELSE IF result.value = <<>> THEN [ok |-> TRUE, value |-> <<>>]
     ELSE [ok |-> FALSE, value |-> <<>>]

\* #[derive(Deserialize)] for Page (lines 37-69): in_reply_to has
\* deserialize_with and default, so a missing field is None without a call
DeserializePage(j) ==
  LET in_reply_to == IF j.in_reply_to = "absent"
                     THEN [ok |-> TRUE, value |-> <<>>]
                     ELSE deserialize_not_present(j.in_reply_to)
  IN IF in_reply_to.ok /\ j.rest_ok
     THEN [ok |-> TRUE,
           page |-> [in_reply_to |-> in_reply_to.value,
                     attributed_to |-> j.attributed_to,
                     comments_enabled |-> j.comments_enabled]]
     ELSE [ok |-> FALSE]

\* is_locked_changed without the negation of locked
is_locked_changed_NoNegation(old_post, new_comments_enabled) ==
  IF new_comments_enabled # <<>> /\ old_post # <<>>
  THEN new_comments_enabled[1] # old_post[1].locked
  ELSE FALSE

\* lines 161-172; old_post is <<>> for Err
is_locked_changed(old_post, new_comments_enabled) ==
  IF new_comments_enabled # <<>>
  THEN IF old_post # <<>>
       THEN new_comments_enabled[1] # ~old_post[1].locked
       ELSE FALSE
  ELSE FALSE

\* creator taking the first entry of the pair whatever its kind
creator_FirstEntry(attributed_to) ==
  IF attributed_to.kind = "Lemmy"
  THEN [ok |-> TRUE, id |-> attributed_to.id]
  ELSE [ok |-> TRUE, id |-> attributed_to.entries[1].id]

\* lines 174-183
creator(attributed_to) ==
  IF attributed_to.kind = "Lemmy"
  THEN [ok |-> TRUE, id |-> attributed_to.id]
  ELSE LET p == attributed_to.entries
       IN IF p[1].kind = "Person" THEN [ok |-> TRUE, id |-> p[1].id]
          ELSE IF p[2].kind = "Person" THEN [ok |-> TRUE, id |-> p[2].id]
          ELSE [ok |-> FALSE, id |-> 0]

NothingApplied ==
  [mod_action |-> <<>>, creator |-> <<>>, verify |-> "none", receive |-> "none"]

HavePage == parsed # <<>> /\ parsed[1].ok

\* serde_json::from_value::<Page>
ParsePage ==
  /\ json \in PageJson /\ parsed = <<>>
  /\ parsed' = <<DeserializePage(json)>>
  /\ UNCHANGED <<json, db_post, applied>>
  /\ UNCHANGED <<voteVars, pageVars>>

\* lines 153-159: Page::is_mod_action
IsModAction ==
  /\ HavePage /\ applied.mod_action = <<>>
  /\ applied' = [applied EXCEPT !.mod_action =
       <<is_locked_changed(db_post, parsed[1].page.comments_enabled)>>]
  /\ UNCHANGED <<json, db_post, parsed>>
  /\ UNCHANGED <<voteVars, pageVars>>

\* Page::creator called on the parsed page
Creator ==
  /\ HavePage /\ applied.creator = <<>>
  /\ applied' = [applied EXCEPT !.creator = <<creator(parsed[1].page.attributed_to)>>]
  /\ UNCHANGED <<json, db_post, parsed>>
  /\ UNCHANGED <<voteVars, pageVars>>

\* lines 218-220: verify, the result is ApubPost::verify's
Verify ==
  /\ HavePage /\ applied.verify = "none"
  /\ \E result \in {"Ok", "Err"} : applied' = [applied EXCEPT !.verify = result]
  /\ UNCHANGED <<json, db_post, parsed>>
  /\ UNCHANGED <<voteVars, pageVars>>

\* the dispatcher lets every payload through to receive
MayReceive_Always == TRUE

\* the caller of the ActivityHandler: receive is called once verify returned Ok
MayReceive == applied.verify = "Ok"

\* lines 221-224: receive, ApubPost::from_json(...).await?
Receive ==
  /\ HavePage /\ applied.receive = "none"
  /\ MayReceive
  /\ \E result \in {"Ok", "Err"} : applied' = [applied EXCEPT !.receive = result]
  /\ UNCHANGED <<json, db_post, parsed>>
  /\ UNCHANGED <<voteVars, pageVars>>

InitObject ==
  /\ NoVotes
  /\ enable_downvotes = TRUE
  /\ NoPage
  /\ json \in PageJson
  /\ db_post \in {<<>>, <<[locked |-> TRUE]>>, <<[locked |-> FALSE]>>}
  /\ parsed = <<>>
  /\ applied = NothingApplied

NextObject ==
  \/ ParsePage
  \/ IsModAction
  \/ Creator
  \/ Verify
  \/ Receive

SpecObject == InitObject /\ [][NextObject]_vars

\* C11: a payload whose inReplyTo is present and not null never parses as a
\* Page, whatever its other fields; with inReplyTo absent or null the payload
\* parses when its other fields do, and in_reply_to is None.
C11_InReplyToRejected ==
  (json \in PageJson /\ parsed # <<>>) =>
     /\ json.in_reply_to \notin {"absent", "null"} => ~parsed[1].ok
     /\ json.in_reply_to \in {"absent", "null"} =>
          /\ parsed[1].ok <=> json.rest_ok
          /\ parsed[1].ok => parsed[1].page.in_reply_to = <<>>

\* a payload that is valid but for its inReplyTo string was rejected
C11_Witness ==
  /\ json \in PageJson /\ json.in_reply_to = "string" /\ json.rest_ok
  /\ parsed # <<>> /\ ~parsed[1].ok

\* C12: is_locked_changed is true exactly when commentsEnabled is present,
\* the stored post was found, and the new value differs from the negation of
\* its locked flag.
C12_ModActionIff ==
  (HavePage /\ applied.mod_action # <<>>) =>
     (applied.mod_action[1]
        <=> /\ json.comments_enabled # <<>>
            /\ db_post # <<>>
            /\ json.comments_enabled[1] # (~db_post[1].locked))

\* commentsEnabled = true on a stored post that is not locked: no mod action
C12_Witness ==
  /\ HavePage /\ json.comments_enabled = <<TRUE>>
  /\ db_post = <<[locked |-> FALSE]>>
  /\ applied.mod_action = <<FALSE>>

PersonEntries(attributed_to) ==
  {k \in 1..2 : attributed_to.entries[k].kind = "Person"}

\* C13: creator returns the id of a direct attribution unchanged; for a
\* DualActor attribution it fails when no entry is tagged Person and returns
\* the id of the Person entry when there is exactly one, in either position.
C13_CreatorResolved ==
  (HavePage /\ applied.creator # <<>>) =>
     LET a == json.attributed_to
         c == applied.creator[1]
     IN /\ a.kind = "Lemmy" => (c.ok /\ c.id = a.id)
        /\ a.kind = "Peertube" =>
             /\ PersonEntries(a) = {} => ~c.ok
             /\ \A k \in 1..2 :
                  PersonEntries(a) = {k} => (c.ok /\ c.id = a.entries[k].id)

\* the Person entry is the second of the pair and its id is returned
C13_Witness ==
  /\ HavePage /\ json.attributed_to.kind = "Peertube"
  /\ PersonEntries(json.attributed_to) = {2}
  /\ json.attributed_to.entries[1].id # json.attributed_to.entries[2].id
  /\ applied.creator = <<[ok |-> TRUE, id |-> json.attributed_to.entries[2].id]>>

\* C14: receive has run for a payload only if verify has returned Ok for it.
C14_ReceiveOnlyAfterVerify ==
  (json \in PageJson /\ applied.receive # "none") => applied.verify = "Ok"

\* a verified payload was received
C14_Witness ==
  /\ json \in PageJson /\ HavePage
  /\ applied.verify = "Ok" /\ applied.receive = "Ok"

(***************************************************************************)
(* Attachment: the untagged enum Link | Image | Document and its accessors *)
(***************************************************************************)
\* the JSON value of a Url field: 0 is a missing field, -1 a string that is
\* no url, the others are urls
UrlJson == {0, -1} \cup Urls

\* the JSON value of the field name: 0 is missing or null, the others strings
NameJson == 0..2

AttachmentJson ==
  [type : {"Link", "Image", "Document", "Other"},
   href : UrlJson,
   url : UrlJson,
   media_type : 0..1,
   name : NameJson]

\* a required Url field
DeserializeUrl(value) ==
  IF value \in Urls THEN [ok |-> TRUE, value |-> value]
  ELSE [ok |-> FALSE, value |-> 0]

\* an Option<String> field: missing or null is None
DeserializeName(value) == IF value = 0 THEN <<>> ELSE <<value>>

\* lines 71-79: Link { href, media_type, type, name }
DeserializeLink(j) ==
  IF j.type = "Link" /\ DeserializeUrl(j.href).ok
  THEN [ok |-> TRUE,
        value |-> [variant |-> "Link", href |-> DeserializeUrl(j.href).value,
                   media_type |-> DeserializeName(j.media_type),
                   name |-> DeserializeName(j.name)]]
  ELSE [ok |-> FALSE]

\* lines 81-89: Image { kind, url, name }
DeserializeImage(j) ==
  IF j.type = "Image" /\ DeserializeUrl(j.url).ok
  THEN [ok |-> TRUE,
        value |-> [variant |-> "Image", url |-> DeserializeUrl(j.url).value,
                   name |-> DeserializeName(j.name)]]
  ELSE [ok |-> FALSE]

\* lines 91-99: Document { kind, url, name }
DeserializeDocument(j) ==
  IF j.type = "Document" /\ DeserializeUrl(j.url).ok
  THEN [ok |-> TRUE,
        value |-> [variant |-> "Document", url |-> DeserializeUrl(j.url).value,
                   name |-> DeserializeName(j.name)]]
  ELSE [ok |-> FALSE]

\* lines 101-107: #[serde(untagged)], the first variant that deserializes
DeserializeAttachment(j) ==
  IF DeserializeLink(j).ok THEN DeserializeLink(j)
  ELSE IF DeserializeImage(j).ok THEN DeserializeImage(j)
  ELSE IF DeserializeDocument(j).ok THEN DeserializeDocument(j)
  ELSE [ok |-> FALSE]

\* lines 110-119
Attachment_url(a) ==
  CASE a.variant = "Link" -> a.href
    [] a.variant = "Image" -> a.url
    [] a.variant = "Document" -> a.url

\* alt_text returning the media type of a Link
Attachment_alt_text_MediaType(a) ==
  CASE a.variant = "Link" -> a.media_type
    [] a.variant = "Image" -> a.name
    [] a.variant = "Document" -> a.name

\* lines 121-130
Attachment_alt_text(a) ==
  CASE a.variant = "Link" -> a.name
    [] a.variant = "Image" -> a.name
    [] a.variant = "Document" -> a.name

HaveAttachment == json \in AttachmentJson /\ parsed # <<>> /\ parsed[1].ok

\* serde_json::from_value::<Attachment>
ParseAttachment ==
  /\ json \in AttachmentJson /\ parsed = <<>>
  /\ parsed' = <<DeserializeAttachment(json)>>
  /\ UNCHANGED <<json, db_post, applied>>
  /\ UNCHANGED <<voteVars, pageVars>>

\* Attachment::url called on the parsed value
AttachmentUrl ==
  /\ HaveAttachment /\ applied.url = <<>>
  /\ applied' = [applied EXCEPT !.url = <<Attachment_url(parsed[1].value)>>]
  /\ UNCHANGED <<json, db_post, parsed>>
  /\ UNCHANGED <<voteVars, pageVars>>

\* Attachment::alt_text called on the parsed value
AttachmentAltText ==
  /\ HaveAttachment /\ applied.alt_text = <<>>
  /\ applied' = [applied EXCEPT !.alt_text = <<Attachment_alt_text(parsed[1].value)>>]
  /\ UNCHANGED <<json, db_post, parsed>>
  /\ UNCHANGED <<voteVars, pageVars>>

InitAttachment ==
  /\ NoVotes
  /\ enable_downvotes = TRUE
  /\ NoPage
  /\ json \in AttachmentJson
  /\ db_post = <<>>
  /\ parsed = <<>>
  /\ applied = [url |-> <<>>, alt_text |-> <<>>]

NextAttachment ==
  \/ ParseAttachment
  \/ AttachmentUrl
  \/ AttachmentAltText

SpecAttachment == InitAttachment /\ [][NextAttachment]_vars

\* the url and the alt text a wire attachment carries: href for the link
\* shape, url for the image and document shapes, and name
CarriedUrl == IF json.type = "Link" THEN json.href ELSE json.url
CarriedAltText == IF json.name = 0 THEN <<>> ELSE <<json.name>>

\* C15: a wire attachment of the link, image or document shape that carries
\* a url parses, and url() and alt_text() of the parsed value return the url
\* and the alt text it carries, the same for the three shapes.
C15_AttachmentRoundTrip ==
  (json \in AttachmentJson /\ parsed # <<>>) =>
     /\ (json.type \in {"Link", "Image", "Document"} /\ CarriedUrl \in Urls)
           => parsed[1].ok
     /\ parsed[1].ok =>
          /\ applied.url # <<>> => applied.url[1] = CarriedUrl
          /\ applied.alt_text # <<>> => applied.alt_text[1] = CarriedAltText

\* a link with url 2 and alt text 1 (and a media type) gave back that pair
C15_Witness ==
  /\ json \in AttachmentJson /\ json.type = "Link"
  /\ json.href = 2 /\ json.name = 1 /\ json.media_type = 1
  /\ applied.url = <<2>> /\ applied.alt_text = <<<<1>>>>

====
